---------------------------- MODULE Spec2Model ----------------------------
(***************************************************************************)
(* Region-based memory allocators (Linear, Stack, FreeList, Pool, Proxy)   *)
(* of "C++: Custom memory allocation" (src/clang/libc++-static.md) and the *)
(* pointer arithmetic of src/unnamed/part_002.                             *)
(*                                                                         *)
(* Every member function is a pure operator from the object's fields (a    *)
(* record named self) and the call's arguments to a result record          *)
(*     [self |-> the fields after the call, ret |-> the returned pointer,  *)
(*      assert |-> TRUE iff an ASSERT of the function failed]              *)
(* and every action applies one member function to the VARIABLES.          *)
(*                                                                         *)
(* Memory is the variable mem, a function from the addresses at which the  *)
(* allocator has written a structure (an AllocationHeader, a FreeBlock, a  *)
(* pool slot's next pointer) to the structure written there.  A structure  *)
(* leaves mem when the code gives its bytes away (a popped slot, a header  *)
(* of a freed allocation, a free block that was carved or merged): the     *)
(* code never reads it again in a call that respects the caller contract.  *)
(***************************************************************************)
EXTENDS Integers, Sequences, FiniteSets, TLC

VARIABLES
    kind,             \* the concrete class: "Linear", "Stack", "FreeList", "Pool"
    ptr,              \* sizeof(void *) == sizeof(size_t) of the build: 4 or 8
    debug,            \* the build defines _DEBUG (tracked StackAllocator)
    start,            \* Allocator::_start
    size,             \* Allocator::_size
    used_memory,      \* Allocator::_used_memory
    num_allocations,  \* Allocator::_num_allocations
    current_pos,      \* LinearAllocator / StackAllocator::_current_pos
    prev_position,    \* StackAllocator::_prev_position (_DEBUG only)
    free_blocks,      \* FreeListAllocator::_free_blocks
    free_list,        \* PoolAllocator::_free_list
    objectSize,       \* PoolAllocator::_objectSize
    objectAlignment,  \* PoolAllocator::_objectAlignment
    mem,              \* the structures the allocator keeps inside the region
    proxy,            \* the ProxyAllocators in front of the allocator
    live,             \* history: the allocations returned and not yet released
    last,             \* history: the last call, its arguments and what it returned
    status            \* "ok", or "assert" once an ASSERT has failed (halt)

vars == <<kind, ptr, debug, start, size, used_memory, num_allocations,
          current_pos, prev_position, free_blocks, free_list, objectSize,
          objectAlignment, mem, proxy, live, last, status>>

-----------------------------------------------------------------------------
(* Bounds of the model *)

\* size_t and uptr are SizeBits wide in the model (arithmetic is modulo 2^SizeBits)
SizeBits == 16
\* the region's first byte is BaseAddr or BaseAddr + 4
BaseAddr == 4096
\* capacities of the regions handed to the constructors
SmallCap == 64
LargeCap == 80
\* at most MaxLive allocations are live at once
MaxLive == 3
\* the ProxyAllocators in front of one allocator
NumProxies == 2
\* a ProxyAllocator is asked to allocate while its count is below MaxCount
MaxCount == 4

\* unsigned char
U8Mod == 256
nullptr == 0

SizeMod == 2 ^ SizeBits
SizeT(x) == x % SizeMod
U8(x) == x % U8Mod

Starts == {BaseAddr, BaseAddr + 4}
Capacities == {SmallCap, LargeCap}
\* the sizes and alignments the callers ask for
Sizes == {1, 8, 24}
Alignments == {4, 16}

-----------------------------------------------------------------------------
(* Memory *)

NoMem == [a \in {} |-> 0]
Store(m, a, v) == [k \in (DOMAIN m) \cup {a} |-> IF k = a THEN v ELSE m[k]]
Drop(m, S) == [k \in (DOMAIN m) \ S |-> m[k]]

-----------------------------------------------------------------------------
(* pointer_math *)

RECURSIVE BitAnd(_, _)
BitAnd(x, y) ==
    IF x = 0 \/ y = 0 THEN 0
    ELSE (x % 2) * (y % 2) + 2 * BitAnd(x \div 2, y \div 2)

\* (address + (u8)(alignment - 1)) & (u8)~(alignment - 1): the mask is a u8
alignForward(address, alignment) ==
    BitAnd(SizeT(address + U8(alignment - 1)), U8Mod - 1 - U8(alignment - 1))

\* (mutant) an aligned address is moved on by a whole alignment
alignForwardAdjustment_NoZeroCase(address, alignment) ==
    U8(alignment - BitAnd(address, alignment - 1))

\* (mutant) the distance back to the previous multiple, not to the next
alignForwardAdjustment_Backward(address, alignment) ==
    U8(BitAnd(address, alignment - 1))

alignForwardAdjustment(address, alignment) ==
    LET adjustment == U8(alignment - BitAnd(address, alignment - 1))
    IN  IF adjustment = alignment THEN 0 ELSE adjustment

\* (mutant) the adjustment is not rounded up to cover the header's rest
alignForwardAdjustmentWithHeader_NoRoundUp(address, alignment, headerSize) ==
    LET adjustment  == alignForwardAdjustment(address, alignment)
        neededSpace == U8(headerSize - adjustment)
    IN  IF adjustment < headerSize
        THEN U8(adjustment + alignment * (neededSpace \div alignment))
        ELSE adjustment

alignForwardAdjustmentWithHeader(address, alignment, headerSize) ==
    LET adjustment  == alignForwardAdjustment(address, alignment)
        neededSpace == U8(headerSize - adjustment)
        grown       == U8(adjustment + alignment * (neededSpace \div alignment))
    IN  IF adjustment < headerSize
        THEN IF neededSpace % alignment > 0 THEN U8(grown + alignment) ELSE grown
        ELSE adjustment

-----------------------------------------------------------------------------
(* Allocator *)

Self == [kind |-> kind, ptr |-> ptr, debug |-> debug,
         start |-> start, size |-> size,
         used_memory |-> used_memory, num_allocations |-> num_allocations,
         current_pos |-> current_pos, prev_position |-> prev_position,
         free_blocks |-> free_blocks, free_list |-> free_list,
         objectSize |-> objectSize, objectAlignment |-> objectAlignment,
         mem |-> mem]

\* Allocator::Allocator, with the derived classes' fields not yet set
Allocator(k, w, d, sz, st) ==
    [kind |-> k, ptr |-> w, debug |-> d, start |-> st, size |-> sz,
     used_memory |-> 0, num_allocations |-> 0,
     current_pos |-> nullptr, prev_position |-> nullptr,
     free_blocks |-> nullptr, free_list |-> nullptr,
     objectSize |-> 0, objectAlignment |-> 0, mem |-> NoMem]

\* how a call ends: it returns p, or an ASSERT of it fails
Returns(self, p) == [self |-> self, ret |-> p, assert |-> FALSE]
Asserts(self) == [self |-> self, ret |-> nullptr, assert |-> TRUE]

-----------------------------------------------------------------------------
(* LinearAllocator *)

LinearAllocator(w, d, sz, st) ==
    [Allocator("Linear", w, d, sz, st) EXCEPT !.current_pos = st]

\* (mutant) the allocation is counted before the capacity check
LinearAllocate_CountsBeforeCheck(self, sz, alignment) ==
    LET adjustment == alignForwardAdjustment(self.current_pos, alignment)
        aligned_address == SizeT(self.current_pos + adjustment)
        counted == [self EXCEPT !.num_allocations = SizeT(@ + 1)]
    IN  IF sz = 0 THEN Asserts(self)
        ELSE IF SizeT(self.used_memory + adjustment + sz) > self.size
        THEN Returns(counted, nullptr)
        ELSE Returns([counted EXCEPT
                        !.current_pos = SizeT(aligned_address + sz),
                        !.used_memory = SizeT(self.used_memory + sz + adjustment)],
                     aligned_address)

\* (mutant) the padding in front of the object is not accounted for
LinearAllocate_DropsAdjustment(self, sz, alignment) ==
    LET adjustment == alignForwardAdjustment(self.current_pos, alignment)
        aligned_address == SizeT(self.current_pos + adjustment)
    IN  IF sz = 0 THEN Asserts(self)
        ELSE IF SizeT(self.used_memory + adjustment + sz) > self.size
        THEN Returns(self, nullptr)
        ELSE Returns([self EXCEPT
                        !.current_pos = SizeT(aligned_address + sz),
                        !.used_memory = SizeT(self.used_memory + sz),
                        !.num_allocations = SizeT(self.num_allocations + 1)],
                     aligned_address)

LinearAllocate(self, sz, alignment) ==
    LET adjustment == alignForwardAdjustment(self.current_pos, alignment)
        aligned_address == SizeT(self.current_pos + adjustment)
    IN  IF sz = 0 THEN Asserts(self)
        ELSE IF SizeT(self.used_memory + adjustment + sz) > self.size
        THEN Returns(self, nullptr)
        ELSE Returns([self EXCEPT
                        !.current_pos = SizeT(aligned_address + sz),
                        !.used_memory = SizeT(self.used_memory + sz + adjustment),
                        !.num_allocations = SizeT(self.num_allocations + 1)],
                     aligned_address)

\* (mutant) deallocate gives up one allocation instead of failing
LinearDeallocate_Releases(self, p) ==
    Returns([self EXCEPT !.num_allocations = SizeT(@ - 1)], nullptr)

LinearDeallocate(self, p) == Asserts(self)

\* (mutant) clear() leaves the cursor where it is
LinearClear_KeepsCursor(self) ==
    Returns([self EXCEPT !.num_allocations = 0, !.used_memory = 0], nullptr)

LinearClear(self) ==
    Returns([self EXCEPT !.num_allocations = 0,
                         !.used_memory = 0,
                         !.current_pos = self.start],
            nullptr)

-----------------------------------------------------------------------------
(* StackAllocator *)

\* sizeof(StackAllocator::AllocationHeader): { void *prev_address; u8 adjustment; }
\* under _DEBUG (padded to the pointer's alignment), { u8 adjustment; } otherwise
StackHeaderSize(self) == IF self.debug THEN 2 * self.ptr ELSE 1

StackAllocator(w, d, sz, st) ==
    [Allocator("Stack", w, d, sz, st) EXCEPT !.current_pos = st,
                                             !.prev_position = nullptr]

StackAllocate(self, sz, alignment) ==
    LET adjustment == alignForwardAdjustmentWithHeader(
                          self.current_pos, alignment, StackHeaderSize(self))
        aligned_address == SizeT(self.current_pos + adjustment)
        header == SizeT(aligned_address - StackHeaderSize(self))
    IN  IF sz = 0 THEN Asserts(self)
        ELSE IF SizeT(self.used_memory + adjustment + sz) > self.size
        THEN Returns(self, nullptr)
        ELSE Returns([self EXCEPT
                        !.mem = Store(self.mem, header,
                                      IF self.debug
                                      THEN [adjustment |-> adjustment,
                                            prev_address |-> self.prev_position]
                                      ELSE [adjustment |-> adjustment]),
                        !.prev_position = IF self.debug THEN aligned_address ELSE @,
                        !.current_pos = SizeT(aligned_address + sz),
                        !.used_memory = SizeT(self.used_memory + sz + adjustment),
                        !.num_allocations = SizeT(self.num_allocations + 1)],
                     aligned_address)

\* (mutant) the top goes back to p, not to the start of p's padding
StackDeallocate_KeepsAdjustment(self, p) ==
    LET header == SizeT(p - StackHeaderSize(self))
        h == self.mem[header]
    IN  IF self.debug /\ p # self.prev_position THEN Asserts(self)
        ELSE Returns([self EXCEPT
                        !.used_memory = SizeT(self.used_memory
                                              - SizeT(self.current_pos - p)),
                        !.current_pos = p,
                        !.prev_position = IF self.debug THEN h.prev_address ELSE @,
                        !.num_allocations = SizeT(self.num_allocations - 1),
                        !.mem = Drop(self.mem, {header})],
                     nullptr)

\* (mutant) the order of deallocations is not checked
StackDeallocate_Unchecked(self, p) ==
    LET header == SizeT(p - StackHeaderSize(self))
        h == self.mem[header]
    IN  Returns([self EXCEPT
                    !.used_memory = SizeT(self.used_memory
                                          - (SizeT(self.current_pos - p) + h.adjustment)),
                    !.current_pos = SizeT(p - h.adjustment),
                    !.prev_position = IF self.debug THEN h.prev_address ELSE @,
                    !.num_allocations = SizeT(self.num_allocations - 1),
                    !.mem = Drop(self.mem, {header})],
                nullptr)

StackDeallocate(self, p) ==
    LET header == SizeT(p - StackHeaderSize(self))
        h == self.mem[header]
    IN  IF self.debug /\ p # self.prev_position THEN Asserts(self)
        ELSE Returns([self EXCEPT
                        !.used_memory = SizeT(self.used_memory
                                              - (SizeT(self.current_pos - p) + h.adjustment)),
                        !.current_pos = SizeT(p - h.adjustment),
                        !.prev_position = IF self.debug THEN h.prev_address ELSE @,
                        !.num_allocations = SizeT(self.num_allocations - 1),
                        !.mem = Drop(self.mem, {header})],
                     nullptr)

-----------------------------------------------------------------------------
(* FreeListAllocator *)

\* sizeof(FreeListAllocator::AllocationHeader): { size_t size; u8 adjustment; }
FreeListHeaderSize(self) == 2 * self.ptr
\* sizeof(FreeListAllocator::FreeBlock): { size_t size; FreeBlock *next; }
FreeBlockSize(self) == 2 * self.ptr

FreeListAllocator(w, d, sz, st) ==
    [Allocator("FreeList", w, d, sz, st) EXCEPT
        !.free_blocks = st,
        !.mem = Store(NoMem, st, [size |-> sz, next |-> nullptr])]

\* (mutant) a leftover as large as a header is split off
FreeListAbsorbs_Strict(self, leftover) == leftover < FreeListHeaderSize(self)

\* allocate's test "allocations in the remaining memory will be impossible"
FreeListAbsorbs(self, leftover) == leftover <= FreeListHeaderSize(self)

\* (mutant) the allocation is not grown by the leftover it absorbs
FreeListTotalSize_ForgetsLeftover(absorb, block_size, total_size) == total_size

\* total_size once the test is made
FreeListTotalSize(absorb, block_size, total_size) ==
    IF absorb THEN block_size ELSE total_size

\* the body of allocate's loop for a block the request fits in
FreeListCarve(self, sz, alignment, prev_free_block, free_block) ==
    LET adjustment == alignForwardAdjustmentWithHeader(
                          free_block, alignment, FreeListHeaderSize(self))
        blk == self.mem[free_block]
        absorb == FreeListAbsorbs(self, SizeT(blk.size - SizeT(sz + adjustment)))
        total_size == FreeListTotalSize(absorb, blk.size, SizeT(sz + adjustment))
        next_block == SizeT(free_block + total_size)
        successor == IF absorb THEN blk.next ELSE next_block
        m1 == Drop(self.mem, {free_block})
        m2 == IF absorb THEN m1
              ELSE Store(m1, next_block, [size |-> SizeT(blk.size - total_size),
                                          next |-> blk.next])
        m3 == IF prev_free_block # nullptr
              THEN [m2 EXCEPT ![prev_free_block].next = successor]
              ELSE m2
        aligned_address == SizeT(free_block + adjustment)
        header == SizeT(aligned_address - FreeListHeaderSize(self))
        after == [self EXCEPT
                    !.free_blocks = IF prev_free_block # nullptr THEN @ ELSE successor,
                    !.mem = Store(m3, header, [size |-> total_size,
                                               adjustment |-> adjustment]),
                    !.used_memory = SizeT(self.used_memory + total_size),
                    !.num_allocations = SizeT(self.num_allocations + 1)]
    IN  IF alignForwardAdjustment(aligned_address, alignment) = 0
        THEN Returns(after, aligned_address)
        ELSE Asserts(after)

\* the free blocks from block b on, in list order
RECURSIVE FreeListFrom(_, _)
FreeListFrom(m, b) ==
    IF b = nullptr THEN <<>> ELSE <<b>> \o FreeListFrom(m, m[b].next)

\* (mutant) best fit: the smallest block the request fits in
FreeListSearch_BestFit(self, sz, alignment, prev_free_block, free_block) ==
    LET blocks == FreeListFrom(self.mem, free_block)
        fitting == {i \in 1 .. Len(blocks) :
                       self.mem[blocks[i]].size >=
                           SizeT(sz + alignForwardAdjustmentWithHeader(
                                          blocks[i], alignment, FreeListHeaderSize(self)))}
        best == CHOOSE i \in fitting : \A j \in fitting :
                    \/ self.mem[blocks[i]].size < self.mem[blocks[j]].size
                    \/ self.mem[blocks[i]].size = self.mem[blocks[j]].size /\ i <= j
    IN  IF fitting = {} THEN Returns(self, nullptr)
        ELSE FreeListCarve(self, sz, alignment,
                           IF best = 1 THEN prev_free_block ELSE blocks[best - 1],
                           blocks[best])

\* (mutant) the search gives up when the first block is too small
FreeListSearch_HeadOnly(self, sz, alignment, prev_free_block, free_block) ==
    IF free_block = nullptr THEN Returns(self, nullptr)
    ELSE IF self.mem[free_block].size
              < SizeT(sz + alignForwardAdjustmentWithHeader(
                               free_block, alignment, FreeListHeaderSize(self)))
    THEN Returns(self, nullptr)
    ELSE FreeListCarve(self, sz, alignment, prev_free_block, free_block)

\* allocate's loop, from the block free_block on
RECURSIVE FreeListSearch(_, _, _, _, _)
FreeListSearch(self, sz, alignment, prev_free_block, free_block) ==
    IF free_block = nullptr THEN Returns(self, nullptr)
    ELSE IF self.mem[free_block].size
              < SizeT(sz + alignForwardAdjustmentWithHeader(
                               free_block, alignment, FreeListHeaderSize(self)))
    THEN FreeListSearch(self, sz, alignment, free_block, self.mem[free_block].next)
    ELSE FreeListCarve(self, sz, alignment, prev_free_block, free_block)

FreeListAllocate(self, sz, alignment) ==
    IF sz = 0 \/ alignment = 0 THEN Asserts(self)
    ELSE FreeListSearch(self, sz, alignment, nullptr, self.free_blocks)

\* (mutant) the freed block is never merged with the block after it
FreeListJoinsNext_Never(free_block, block_end) == FALSE

\* deallocate's test for merging with the block after the freed one
FreeListJoinsNext(free_block, block_end) ==
    free_block # nullptr /\ free_block = block_end

\* deallocate's loop: <<prev_free_block, free_block>> when it ends
RECURSIVE FreeListLocate(_, _, _, _)
FreeListLocate(self, block_end, prev_free_block, free_block) ==
    IF free_block = nullptr \/ free_block >= block_end
    THEN <<prev_free_block, free_block>>
    ELSE FreeListLocate(self, block_end, free_block, self.mem[free_block].next)

FreeListDeallocate(self, p) ==
    IF p = nullptr THEN Asserts(self)
    ELSE
    LET header == SizeT(p - FreeListHeaderSize(self))
        h == self.mem[header]
        block_start == SizeT(p - h.adjustment)
        block_size == h.size
        block_end == SizeT(block_start + block_size)
        at == FreeListLocate(self, block_end, nullptr, self.free_blocks)
        found_prev == at[1]
        free_block == at[2]
        m0 == Drop(self.mem, {header})
        \* the three branches on prev_free_block
        atHead == found_prev = nullptr
        joinsPrev == ~atHead /\ SizeT(found_prev + m0[found_prev].size) = block_start
        m1 == IF atHead
              THEN Store(m0, block_start, [size |-> block_size,
                                           next |-> self.free_blocks])
              ELSE IF joinsPrev
              THEN [m0 EXCEPT ![found_prev].size = SizeT(@ + block_size)]
              ELSE [Store(m0, block_start, [size |-> block_size,
                                            next |-> m0[found_prev].next])
                       EXCEPT ![found_prev].next = block_start]
        prev_free_block == IF atHead \/ ~joinsPrev THEN block_start ELSE found_prev
        joinsNext == FreeListJoinsNext(free_block, block_end)
        m2 == IF joinsNext
              THEN Drop([m1 EXCEPT
                           ![prev_free_block].size = SizeT(@ + m1[free_block].size),
                           ![prev_free_block].next = m1[free_block].next],
                        {free_block})
              ELSE m1
    IN  Returns([self EXCEPT
                    !.free_blocks = IF atHead THEN block_start ELSE @,
                    !.mem = m2,
                    !.num_allocations = SizeT(self.num_allocations - 1),
                    !.used_memory = SizeT(self.used_memory - block_size)],
                nullptr)

-----------------------------------------------------------------------------
(* PoolAllocator *)

\* the constructor's numObjects
PoolNumObjects(objSize, objAlignment, sz, st) ==
    SizeT(sz - alignForwardAdjustment(st, objAlignment)) \div objSize

\* the constructor's loop and the store after it: slot i < numObjects - 1
\* points to the slot objectSize after it, the last slot to nullptr.  When
\* numObjects - 1 wraps around the loop stores links beyond the region; the
\* first PoolWindow of them are kept, more than any caller here follows
PoolWindow == LargeCap \div 4
PoolLinks(first, objSize, numObjects) ==
    LET lastSlot == SizeT(numObjects - 1)
        stores == IF lastSlot <= PoolWindow THEN lastSlot ELSE PoolWindow
    IN  [a \in {SizeT(first + i * objSize) : i \in 0 .. stores} |->
            IF a = SizeT(first + lastSlot * objSize)
            THEN [next |-> nullptr]
            ELSE [next |-> SizeT(a + objSize)]]

PoolAllocator(w, d, objSize, objAlignment, sz, st) ==
    LET adjustment == alignForwardAdjustment(st, objAlignment)
        first == SizeT(st + adjustment)
    IN  [Allocator("Pool", w, d, sz, st) EXCEPT
            !.objectSize = objSize,
            !.objectAlignment = objAlignment,
            !.free_list = first,
            !.mem = PoolLinks(first, objSize,
                              PoolNumObjects(objSize, objAlignment, sz, st))]

PoolAllocate(self, sz, alignment) ==
    IF ~(sz = self.objectSize /\ alignment = self.objectAlignment)
    THEN Asserts(self)
    ELSE IF self.free_list = nullptr THEN Returns(self, nullptr)
    ELSE Returns([self EXCEPT
                    !.free_list = self.mem[self.free_list].next,
                    !.mem = Drop(self.mem, {self.free_list}),
                    !.used_memory = SizeT(self.used_memory + sz),
                    !.num_allocations = SizeT(self.num_allocations + 1)],
                 self.free_list)

\* (mutant) the freed slot is not linked in front of the free list
PoolDeallocate_LosesTheList(self, p) ==
    Returns([self EXCEPT
                !.mem = Store(self.mem, p, [next |-> nullptr]),
                !.free_list = p,
                !.used_memory = SizeT(self.used_memory - self.objectSize),
                !.num_allocations = SizeT(self.num_allocations - 1)],
            nullptr)

PoolDeallocate(self, p) ==
    Returns([self EXCEPT
                !.mem = Store(self.mem, p, [next |-> self.free_list]),
                !.free_list = p,
                !.used_memory = SizeT(self.used_memory - self.objectSize),
                !.num_allocations = SizeT(self.num_allocations - 1)],
            nullptr)

-----------------------------------------------------------------------------
(* The virtual calls *)

Allocate(self, sz, alignment) ==
    CASE self.kind = "Linear"   -> LinearAllocate(self, sz, alignment)
      [] self.kind = "Stack"    -> StackAllocate(self, sz, alignment)
      [] self.kind = "FreeList" -> FreeListAllocate(self, sz, alignment)
      [] self.kind = "Pool"     -> PoolAllocate(self, sz, alignment)

Deallocate(self, p) ==
    CASE self.kind = "Linear"   -> LinearDeallocate(self, p)
      [] self.kind = "Stack"    -> StackDeallocate(self, p)
      [] self.kind = "FreeList" -> FreeListDeallocate(self, p)
      [] self.kind = "Pool"     -> PoolDeallocate(self, p)

-----------------------------------------------------------------------------
(* ProxyAllocator: px holds the proxy's own Allocator fields, self is the   *)
(* allocator it refers to (_allocator)                                      *)

ProxyAllocator(self) ==
    [start |-> self.start, size |-> self.size,
     used_memory |-> 0, num_allocations |-> 0]

\* (mutant) the proxy counts the bytes asked for
ProxyAllocate_CountsRequestedSize(px, self, sz, alignment) ==
    LET r == Allocate(self, sz, alignment)
        counted == [px EXCEPT !.num_allocations = SizeT(@ + 1)]
    IN  IF sz = 0 THEN [proxy |-> px, self |-> self, ret |-> nullptr, assert |-> TRUE]
        ELSE [proxy |-> IF r.assert \/ r.ret = nullptr THEN counted
                        ELSE [counted EXCEPT !.used_memory = SizeT(@ + sz)],
              self |-> r.self, ret |-> r.ret, assert |-> r.assert]

\* (mutant) the request is forwarded with allocate's default alignment
ProxyAllocate_ForwardsDefaultAlignment(px, self, sz, alignment) ==
    LET r == Allocate(self, sz, 4)
        counted == [px EXCEPT !.num_allocations = SizeT(@ + 1)]
    IN  IF sz = 0 THEN [proxy |-> px, self |-> self, ret |-> nullptr, assert |-> TRUE]
        ELSE [proxy |-> IF r.assert THEN counted
                        ELSE [counted EXCEPT !.used_memory =
                                 SizeT(@ + SizeT(r.self.used_memory - self.used_memory))],
              self |-> r.self, ret |-> r.ret, assert |-> r.assert]

ProxyAllocate(px, self, sz, alignment) ==
    LET r == Allocate(self, sz, alignment)
        counted == [px EXCEPT !.num_allocations = SizeT(@ + 1)]
    IN  IF sz = 0 THEN [proxy |-> px, self |-> self, ret |-> nullptr, assert |-> TRUE]
        ELSE [proxy |-> IF r.assert THEN counted
                        ELSE [counted EXCEPT !.used_memory =
                                 SizeT(@ + SizeT(r.self.used_memory - self.used_memory))],
              self |-> r.self, ret |-> r.ret, assert |-> r.assert]

ProxyDeallocate(px, self, p) ==
    LET r == Deallocate(self, p)
        counted == [px EXCEPT !.num_allocations = SizeT(@ - 1)]
    IN  [proxy |-> IF r.assert THEN counted
                   ELSE [counted EXCEPT !.used_memory =
                            SizeT(@ - SizeT(self.used_memory - r.self.used_memory))],
         self |-> r.self, ret |-> nullptr, assert |-> r.assert]

-----------------------------------------------------------------------------
(* allocateArray / deallocateArray: T is [size |-> sizeof(T),                *)
(* align |-> __alignof(T)], sizeof(size_t) is the pointer's width            *)

\* (mutant) the header's length in elements is rounded down
ArrayHeaderSize_RoundsDown(self, T) == U8(self.ptr \div T.size)

\* headerSize, in elements
ArrayHeaderSize(self, T) ==
    IF self.ptr % T.size > 0 THEN U8(self.ptr \div T.size + 1)
    ELSE U8(self.ptr \div T.size)

\* raw is what allocate returned, ret the array, cell where the length is
\* stored; the store is made whatever allocate returned
allocateArrayAt(self, T, length, headerSize, r) ==
    LET p == SizeT(r.ret + headerSize * T.size)
        cell == SizeT(p - self.ptr)
    IN  IF length = 0 \/ r.assert
        THEN [self |-> IF length = 0 THEN self ELSE r.self, ret |-> nullptr,
              assert |-> TRUE, raw |-> nullptr, cell |-> nullptr]
        ELSE [self |-> [r.self EXCEPT !.mem = Store(@, cell, [length |-> length])],
              ret |-> p, assert |-> FALSE, raw |-> r.ret, cell |-> cell]

\* the allocation behind the array: room for the elements and the header
allocateArrayWith(self, T, length, headerSize) ==
    allocateArrayAt(self, T, length, headerSize,
                    Allocate(self, SizeT(T.size * SizeT(length + headerSize)), T.align))

allocateArray(self, T, length) ==
    allocateArrayWith(self, T, length, ArrayHeaderSize(self, T))

\* length is what is read in front of the array, passed what is handed to
\* deallocate
deallocateArray(self, T, array) ==
    LET cell == SizeT(array - self.ptr)
        length == self.mem[cell].length
        headerSize == ArrayHeaderSize(self, T)
        passed == SizeT(array - headerSize * T.size)
        r == Deallocate([self EXCEPT !.mem = Drop(@, {cell})], passed)
    IN  IF array = nullptr
        THEN [self |-> self, ret |-> nullptr, assert |-> TRUE,
              length |-> 0, passed |-> nullptr]
        ELSE [self |-> r.self, ret |-> nullptr, assert |-> r.assert,
              length |-> length, passed |-> passed]

-----------------------------------------------------------------------------
(* Destructors *)

\* Allocator::~Allocator, on the fields of a concrete allocator or of a proxy
AllocatorDtor(self) ==
    IF ~(self.num_allocations = 0 /\ self.used_memory = 0) THEN Asserts(self)
    ELSE Returns([self EXCEPT !.start = nullptr, !.size = 0], nullptr)

\* the derived class's destructor, then the base class's
Destroy(self) ==
    AllocatorDtor(
        CASE self.kind = "Linear"   -> [self EXCEPT !.current_pos = nullptr]
          [] self.kind = "Stack"    -> [self EXCEPT !.prev_position = nullptr,
                                                    !.current_pos = nullptr]
          [] self.kind = "FreeList" -> [self EXCEPT !.free_blocks = nullptr]
          [] self.kind = "Pool"     -> [self EXCEPT !.free_list = nullptr])

\* ProxyAllocator::~ProxyAllocator is empty
ProxyDestroy(px) == AllocatorDtor(px)

-----------------------------------------------------------------------------
(* Construction *)

PtrSizes == {4, 8}
\* the builds that differ for a class: pointer width and _DEBUG
Builds(k) ==
    CASE k = "Linear"   -> {[ptr |-> 8, debug |-> FALSE]}
      [] k = "Stack"    -> {[ptr |-> 4, debug |-> TRUE], [ptr |-> 8, debug |-> TRUE],
                            [ptr |-> 8, debug |-> FALSE]}
      [] k = "FreeList" -> {[ptr |-> 8, debug |-> FALSE]}
      [] k = "Pool"     -> {[ptr |-> w, debug |-> FALSE] : w \in PtrSizes}

\* the pools the callers construct: PoolAllocator's ASSERT holds and the
\* region has room for one object at least
ObjectSizes == {8, 12, 16}
ObjectAlignments == {4, 8, 16}
PoolShapes(w, sz, st) ==
    {o \in [objectSize : ObjectSizes, objectAlignment : ObjectAlignments] :
        /\ o.objectSize >= w
        /\ alignForwardAdjustment(st, o.objectAlignment) <= sz
        /\ PoolNumObjects(o.objectSize, o.objectAlignment, sz, st) >= 1}

\* the objects a caller can construct over a region of sz bytes at st: the
\* constructors' ASSERTs hold
Constructed(k, sz, st) ==
    CASE k = "Linear"   -> {LinearAllocator(b.ptr, b.debug, sz, st) :
                               b \in {c \in Builds(k) : sz > 0}}
      [] k = "Stack"    -> {StackAllocator(b.ptr, b.debug, sz, st) :
                               b \in {c \in Builds(k) : sz > 0}}
      [] k = "FreeList" -> {FreeListAllocator(b.ptr, b.debug, sz, st) :
                               b \in {c \in Builds(k) :
                                         sz > FreeBlockSize([ptr |-> c.ptr])}}
      [] k = "Pool"     -> UNION {{PoolAllocator(b.ptr, b.debug, o.objectSize,
                                                 o.objectAlignment, sz, st) :
                                       o \in PoolShapes(b.ptr, sz, st)} : b \in Builds(k)}

\* the variables hold the fields of the object self
Holds(self) ==
    /\ kind = self.kind
    /\ ptr = self.ptr
    /\ debug = self.debug
    /\ start = self.start
    /\ size = self.size
    /\ used_memory = self.used_memory
    /\ num_allocations = self.num_allocations
    /\ current_pos = self.current_pos
    /\ prev_position = self.prev_position
    /\ free_blocks = self.free_blocks
    /\ free_list = self.free_list
    /\ objectSize = self.objectSize
    /\ objectAlignment = self.objectAlignment
    /\ mem = self.mem

Call(op, sz, alignment, p, ret) ==
    [op |-> op, size |-> sz, alignment |-> alignment, p |-> p, ret |-> ret]

InitOf(k, caps, starts) ==
    /\ \E sz \in caps, st \in starts : \E self \in Constructed(k, sz, st) :
          /\ Holds(self)
          /\ proxy = [i \in 1 .. NumProxies |-> ProxyAllocator(self)]
    /\ live = {}
    /\ last = Call("construct", 0, 0, nullptr, nullptr)
    /\ status = "ok"

-----------------------------------------------------------------------------
(* The calls *)

\* the variables take the fields of the object self
Becomes(self) ==
    /\ kind' = self.kind
    /\ ptr' = self.ptr
    /\ debug' = self.debug
    /\ start' = self.start
    /\ size' = self.size
    /\ used_memory' = self.used_memory
    /\ num_allocations' = self.num_allocations
    /\ current_pos' = self.current_pos
    /\ prev_position' = self.prev_position
    /\ free_blocks' = self.free_blocks
    /\ free_list' = self.free_list
    /\ objectSize' = self.objectSize
    /\ objectAlignment' = self.objectAlignment
    /\ mem' = self.mem

Ends(r, op, sz, alignment, p) ==
    /\ Becomes(r.self)
    /\ last' = Call(op, sz, alignment, p, r.ret)
    /\ status' = IF r.assert THEN "assert" ELSE "ok"

LiveAddresses == {l.p : l \in live}
\* the live allocation made last by a Stack (its addresses only grow)
MostRecent ==
    IF LiveAddresses = {} THEN nullptr
    ELSE CHOOSE p \in LiveAddresses : \A q \in LiveAddresses : q <= p

\* first byte of the block an allocation was carved from
BlockStart(self, r) ==
    CASE self.kind \in {"Linear", "Stack"} -> self.current_pos
      [] self.kind = "FreeList" ->
            r.ret - r.self.mem[r.ret - FreeListHeaderSize(self)].adjustment
      [] self.kind = "Pool" -> r.ret

Allocated(r, sz, alignment, owner) ==
    IF r.assert \/ r.ret = nullptr THEN live
    ELSE live \cup {[p |-> r.ret, size |-> sz, alignment |-> alignment,
                     lo |-> BlockStart(Self, r), owner |-> owner]}

Released(r, p) ==
    IF r.assert THEN live ELSE {l \in live : l.p # p}

\* a deallocate the caller contract allows; a _DEBUG Stack checks the order
\* itself, so there every live address is tried
MayDeallocate(p) ==
    /\ p \in LiveAddresses
    /\ (kind = "Stack" /\ ~debug) => p = MostRecent

AllocateCall(sz, alignment) ==
    /\ status = "ok"
    /\ LET r == Allocate(Self, sz, alignment)
       IN  /\ Ends(r, "allocate", sz, alignment, nullptr)
           /\ live' = Allocated(r, sz, alignment, 0)
    /\ UNCHANGED proxy

DeallocateCall(p) ==
    /\ status = "ok"
    /\ MayDeallocate(p)
    /\ \E l \in live : l.p = p /\ l.owner = 0
    /\ LET r == Deallocate(Self, p)
       IN  /\ Ends(r, "deallocate", 0, 0, p)
           /\ live' = Released(r, p)
    /\ UNCHANGED proxy

ClearCall ==
    /\ status = "ok"
    /\ kind = "Linear"
    /\ Ends(LinearClear(Self), "clear", 0, 0, nullptr)
    /\ live' = {}
    /\ UNCHANGED proxy

ProxyAllocateCall(i, sz, alignment) ==
    /\ status = "ok"
    /\ LET r == ProxyAllocate(proxy[i], Self, sz, alignment)
       IN  /\ Ends(r, "allocate", sz, alignment, nullptr)
           /\ live' = Allocated(r, sz, alignment, i)
           /\ proxy' = [proxy EXCEPT ![i] = r.proxy]

ProxyDeallocateCall(i, p) ==
    /\ status = "ok"
    /\ MayDeallocate(p)
    /\ \E l \in live : l.p = p /\ l.owner = i
    /\ LET r == ProxyDeallocate(proxy[i], Self, p)
       IN  /\ Ends(r, "deallocate", 0, 0, p)
           /\ live' = Released(r, p)
           /\ proxy' = [proxy EXCEPT ![i] = r.proxy]

\* delete of the allocator, and of a ProxyAllocator
DestroyCall ==
    /\ status = "ok"
    /\ start # nullptr
    /\ Ends(Destroy(Self), "destroy", 0, 0, nullptr)
    /\ UNCHANGED <<proxy, live>>

ProxyDestroyCall(i) ==
    /\ status = "ok"
    /\ proxy[i].start # nullptr
    /\ LET r == ProxyDestroy(proxy[i])
       IN  /\ proxy' = [proxy EXCEPT ![i] = r.self]
           /\ last' = Call("destroy", 0, 0, nullptr, nullptr)
           /\ status' = IF r.assert THEN "assert" ELSE "ok"
    /\ UNCHANGED <<kind, ptr, debug, start, size, used_memory, num_allocations,
                   current_pos, prev_position, free_blocks, free_list,
                   objectSize, objectAlignment, mem, live>>

\* a call outside the caller contract: when no ASSERT stops it the allocator
\* is followed no further
OffContract(r, op, sz, alignment, p) ==
    /\ Becomes(r.self)
    /\ last' = Call(op, sz, alignment, p, r.ret)
    /\ status' = IF r.assert THEN "assert" ELSE "stop"
    /\ UNCHANGED <<proxy, live>>

\* addresses no allocate has returned: two inside the region that are no
\* multiple of 4, one behind the region
Strays(self) == {self.start + 2, self.start + 18, self.start + self.size + 8}

\* deallocate reads a header in front of p where none was written: the bytes
\* there are not known, these are some of the values they can have
ReadsStrayHeader(self) ==
    \/ self.kind = "Stack" /\ ~self.debug
    \/ self.kind = "FreeList"
StrayHeaderAt(self, p) ==
    IF self.kind = "Stack" THEN SizeT(p - StackHeaderSize(self))
    ELSE SizeT(p - FreeListHeaderSize(self))
StrayHeaders(self) ==
    CASE self.kind = "Stack" /\ ~self.debug -> {[adjustment |-> a] : a \in {0, 4}}
      [] self.kind = "FreeList" ->
            {[size |-> sz, adjustment |-> a] : sz \in {0, 16}, a \in {0, 4}}
      [] OTHER -> {[adjustment |-> 0]}

StrayDeallocateCall(p, g) ==
    /\ status = "ok"
    /\ LET r == IF ReadsStrayHeader(Self)
                THEN Deallocate([Self EXCEPT
                                    !.mem = Store(@, StrayHeaderAt(Self, p), g)], p)
                ELSE Deallocate(Self, p)
       IN  OffContract(r, "deallocate", 0, 0, p)

\* alignments that are no power of two
BadAlignments == {3, 6}
BadAlignmentCall(sz, alignment) ==
    /\ status = "ok"
    /\ OffContract(Allocate(Self, sz, alignment), "allocate", sz, alignment, nullptr)

\* allocateArray<T>(allocator, length).  The store of the length is undefined
\* behaviour when allocate returned nullptr (it goes to an address near 0)
\* and when cell is no multiple of sizeof(size_t): the process faults, or
\* the store lands
AllocateArrayCall(T, length) ==
    /\ status = "ok"
    /\ LET r == allocateArray(Self, T, length)
       IN  /\ Becomes(r.self)
           /\ last' = Call("allocateArray", length, T.align, nullptr, r.ret)
           /\ status' \in
                 IF r.assert THEN {"assert"}
                 ELSE IF r.raw = nullptr THEN {"crash", "stop"}
                 ELSE IF r.cell % ptr # 0 THEN {"crash", "ok"}
                 ELSE {"ok"}
           /\ live' = IF r.assert \/ r.raw = nullptr THEN live
                      ELSE live \cup
                           {[p |-> r.raw,
                             size |-> SizeT(T.size * SizeT(length + ArrayHeaderSize(Self, T))),
                             alignment |-> T.align,
                             lo |-> BlockStart(Self, [self |-> r.self, ret |-> r.raw]),
                             owner |-> 0,
                             array |-> r.ret, length |-> length, elem |-> T]}
    /\ UNCHANGED proxy

\* deallocateArray<T>(allocator, array) of a live array
DeallocateArrayCall(l) ==
    /\ status = "ok"
    /\ MayDeallocate(l.p)
    /\ LET r == deallocateArray(Self, l.elem, l.array)
       IN  /\ Becomes(r.self)
           /\ last' = Call("deallocateArray", r.length, 0, l.array, r.passed)
           /\ status' = IF r.assert THEN "assert" ELSE "ok"
           /\ live' = IF r.assert THEN live ELSE live \ {l}
    /\ UNCHANGED proxy

-----------------------------------------------------------------------------
(* Specifications *)

\* the addresses a caller can hold, and whether it may ask for more
Addresses == BaseAddr .. BaseAddr + 4 + LargeCap
Room == Cardinality(live) < MaxLive
\* the requests of a caller of this allocator
Requests ==
    IF kind = "Pool" THEN {<<objectSize, objectAlignment>>}
    ELSE Sizes \X Alignments

LinearNext ==
    \/ \E rq \in Requests : kind = "Linear" /\ Room /\ AllocateCall(rq[1], rq[2])
    \/ \E p \in Addresses : kind = "Linear" /\ DeallocateCall(p)
    \/ ClearCall

StackNext ==
    \/ \E rq \in Requests : kind = "Stack" /\ Room /\ AllocateCall(rq[1], rq[2])
    \/ \E p \in Addresses : kind = "Stack" /\ DeallocateCall(p)

FreeListNext ==
    \/ \E rq \in Requests : kind = "FreeList" /\ Room /\ AllocateCall(rq[1], rq[2])
    \/ \E p \in Addresses : kind = "FreeList" /\ DeallocateCall(p)

PoolNext ==
    \/ \E rq \in Requests : kind = "Pool" /\ Room /\ AllocateCall(rq[1], rq[2])
    \/ \E p \in Addresses : kind = "Pool" /\ DeallocateCall(p)

Kinds == {"Linear", "Stack", "FreeList", "Pool"}

Init == \E k \in Kinds : InitOf(k, Capacities, Starts)
Next == LinearNext \/ StackNext \/ FreeListNext \/ PoolNext
Spec == Init /\ [][Next]_vars

LinearSpec == InitOf("Linear", Capacities, Starts) /\ [][LinearNext]_vars
StackSpec == InitOf("Stack", Capacities, Starts) /\ [][StackNext]_vars
FreeListSpec == InitOf("FreeList", Capacities, Starts) /\ [][FreeListNext]_vars
PoolSpec == InitOf("Pool", Capacities, Starts) /\ [][PoolNext]_vars

\* every call goes through one of the ProxyAllocators; clear() is a member of
\* LinearAllocator only, so it is called on the LinearAllocator itself
\* (64-bit builds over the small region, two sizes of one alignment)
ProxyInit == \E k \in Kinds : InitOf(k, {SmallCap}, {BaseAddr}) /\ ptr = 8
ProxyRequests ==
    IF kind = "Pool" THEN {<<objectSize, objectAlignment>>}
    ELSE {8, 24} \X {4}
ProxyNext ==
    \/ \E i \in 1 .. NumProxies, rq \in ProxyRequests :
          /\ Room
          /\ proxy[i].num_allocations < MaxCount
          /\ ProxyAllocateCall(i, rq[1], rq[2])
    \/ \E i \in 1 .. NumProxies, p \in Addresses : ProxyDeallocateCall(i, p)
    \/ ClearCall
ProxySpec == ProxyInit /\ [][ProxyNext]_vars

\* every call on the allocator is made through a ProxyAllocator that is not
\* destroyed yet, until the allocator itself is destroyed
ProxyOnlyNext ==
    \/ \E i \in 1 .. NumProxies, rq \in ProxyRequests :
          /\ Room
          /\ start # nullptr /\ proxy[i].start # nullptr
          /\ proxy[i].num_allocations < MaxCount
          /\ ProxyAllocateCall(i, rq[1], rq[2])
    \/ \E i \in 1 .. NumProxies, p \in Addresses :
          /\ start # nullptr /\ proxy[i].start # nullptr
          /\ ProxyDeallocateCall(i, p)
    \/ \E i \in 1 .. NumProxies : ProxyDestroyCall(i)
    \/ DestroyCall
ProxyOnlySpec == ProxyInit /\ [][ProxyOnlyNext]_vars

\* a 32-bit build's FreeListAllocator over FitCap bytes, asked for objects of
\* 8 and 56 bytes (16 and 64 bytes with their headers)
FitCap == 240
FitMaxLive == 4
FitSizes == {8, 56}
FitAlignments == {4}
FitInit ==
    /\ Holds(FreeListAllocator(4, FALSE, FitCap, BaseAddr))
    /\ proxy = [i \in 1 .. NumProxies |->
                   ProxyAllocator(FreeListAllocator(4, FALSE, FitCap, BaseAddr))]
    /\ live = {}
    /\ last = Call("construct", 0, 0, nullptr, nullptr)
    /\ status = "ok"
FitNext ==
    \/ \E sz \in FitSizes, al \in FitAlignments :
          Cardinality(live) < FitMaxLive /\ AllocateCall(sz, al)
    \/ \E p \in BaseAddr .. BaseAddr + FitCap : DeallocateCall(p)
FitSpec == FitInit /\ [][FitNext]_vars

\* PoolAllocators over a region of TightCap bytes, small enough for a caller
\* to take every slot; the call that finds the pool empty is made too
TightCap == 24
SmallPoolNext ==
    \/ \E rq \in Requests :
          kind = "Pool" /\ Cardinality(live) <= MaxLive /\ AllocateCall(rq[1], rq[2])
    \/ \E p \in Addresses : kind = "Pool" /\ DeallocateCall(p)
SmallPoolSpec == InitOf("Pool", {TightCap}, Starts) /\ [][SmallPoolNext]_vars

\* the constructor's loop runs past the region when numObjects - 1 wraps
\* around: no object fits behind the adjustment, or the adjustment exceeds
\* the size
PoolOverruns(objSize, objAlignment, sz, st) ==
    \/ alignForwardAdjustment(st, objAlignment) > sz
    \/ PoolNumObjects(objSize, objAlignment, sz, st) = 0

\* every PoolAllocator whose constructor's ASSERT holds, over TightCap bytes.
\* The stores of a loop that overruns the region are undefined behaviour:
\* the process is stopped by a fault, or the stores land and the constructor
\* returns
AnyPoolInit ==
    /\ \E st \in Starts, w \in PtrSizes :
       \E o \in [objectSize : ObjectSizes, objectAlignment : ObjectAlignments] :
          /\ o.objectSize >= w
          /\ Holds(PoolAllocator(w, FALSE, o.objectSize, o.objectAlignment,
                                 TightCap, st))
          /\ proxy = [i \in 1 .. NumProxies |->
                         ProxyAllocator(Allocator("Pool", w, FALSE, TightCap, st))]
          /\ status \in IF PoolOverruns(o.objectSize, o.objectAlignment, TightCap, st)
                        THEN {"ok", "crash"} ELSE {"ok"}
    /\ live = {}
    /\ last = Call("construct", 0, 0, nullptr, nullptr)
AnyPoolSpec == AnyPoolInit /\ [][SmallPoolNext]_vars

\* deallocate of nullptr or of a stray address on a _DEBUG StackAllocator.
\* When ASSERT(p == _prev_position) passes, the header is read in front of p
\* where none was written (for nullptr, at the top of the address space): the
\* process faults with nothing changed, or goes on with the bytes it finds
TrackedStrays(self) == {nullptr} \cup Strays(self)
TrackedStrayHeaders(self) ==
    {[adjustment |-> a, prev_address |-> q] : a \in {0, 4}, q \in {nullptr, self.start}}
TrackedStrayDeallocateCall(p, g) ==
    /\ status = "ok"
    /\ kind = "Stack" /\ debug
    /\ p \notin LiveAddresses
    /\ \E faults \in BOOLEAN :
          /\ Becomes(IF faults
                     THEN Self
                     ELSE StackDeallocate(
                              [Self EXCEPT
                                  !.mem = Store(@, StrayHeaderAt(Self, p), g)], p).self)
          /\ status' = IF p # prev_position THEN "assert"
                        ELSE IF faults THEN "crash" ELSE "stop"
          /\ faults => p = prev_position
    /\ last' = Call("deallocate", 0, 0, p, nullptr)
    /\ UNCHANGED <<proxy, live>>

\* allocate asked for nearly as many bytes as a size_t can count.  When the
\* request is served the caller holds a block that no region contains, and
\* the allocator is followed no further
HugeSizes == {SizeMod - 4, SizeMod - 16, SizeMod - 28}
HugeAllocateCall(sz, alignment) ==
    /\ status = "ok"
    /\ Becomes(Allocate(Self, sz, alignment).self)
    /\ last' = Call("allocate", sz, alignment, nullptr,
                    Allocate(Self, sz, alignment).ret)
    /\ status' = IF Allocate(Self, sz, alignment).assert THEN "assert"
                  ELSE IF Allocate(Self, sz, alignment).ret = nullptr THEN "ok"
                  ELSE "stop"
    /\ UNCHANGED <<proxy, live>>

\* the callers of Spec, which also deallocate stray addresses and ask for
\* alignments that are no power of two
MisuseNext ==
    \/ Next
    \/ \E p \in Strays(Self), g \in StrayHeaders(Self) : StrayDeallocateCall(p, g)
    \/ \E rq \in Requests, alignment \in BadAlignments :
          Room /\ BadAlignmentCall(rq[1], alignment)
MisuseSpec == (\E k \in Kinds : InitOf(k, {SmallCap}, Starts)) /\ [][MisuseNext]_vars

\* a _DEBUG StackAllocator whose caller also passes deallocate nullptr and
\* addresses that no allocate returned
TrackedStackNext ==
    \/ StackNext
    \/ \E p \in TrackedStrays(Self), g \in TrackedStrayHeaders(Self) :
          TrackedStrayDeallocateCall(p, g)
TrackedStackInit == InitOf("Stack", {SmallCap}, Starts) /\ debug
TrackedStackSpec == TrackedStackInit /\ [][TrackedStackNext]_vars

\* Linear, Stack and FreeList allocators over the small region whose callers
\* also make requests of HugeSizes
HugeNext ==
    \/ LinearNext \/ StackNext \/ FreeListNext
    \/ \E sz \in HugeSizes, alignment \in Alignments : HugeAllocateCall(sz, alignment)
HugeSpec ==
    /\ \E k \in {"Linear", "Stack", "FreeList"} : InitOf(k, {SmallCap}, Starts)
    /\ [][HugeNext]_vars

\* arrays of up to MaxLength elements of a few types, from a Linear, Stack or
\* FreeList allocator over the small region
MaxLength == 3
ElementTypes ==
    {[size |-> 1, align |-> 1], [size |-> 4, align |-> 4],
     [size |-> 12, align |-> 4], [size |-> 16, align |-> 8]}
ArrayNext ==
    \/ \E T \in ElementTypes, length \in 1 .. MaxLength :
          Room /\ AllocateArrayCall(T, length)
    \/ \E l \in live : DeallocateArrayCall(l)
ArraySpec ==
    /\ \E k \in {"Linear", "Stack", "FreeList"} : InitOf(k, {SmallCap}, Starts)
    /\ [][ArrayNext]_vars

\* pointer_math called on its own: on addresses at 0, around the largest u8
\* and around BaseAddr, with every alignment a u8 can hold and the sizes of
\* the headers the allocators pass
MathSpan == 20
PowersOfTwo == {1, 2, 4, 8, 16, 32, 64, 128}
HeaderSizes == {1, 8, 16}
MathAddresses ==
    UNION {b .. b + MathSpan : b \in {0, U8Mod - 8, BaseAddr - 8}}

MathInit ==
    /\ Holds(Allocator("pointer_math", 8, FALSE, 0, nullptr))
    /\ proxy = [i \in 1 .. NumProxies |->
                   ProxyAllocator(Allocator("pointer_math", 8, FALSE, 0, nullptr))]
    /\ live = {}
    /\ last = Call("construct", 0, 0, nullptr, nullptr)
    /\ status = "ok"

\* one call of a function on arguments of the caller's choice
MathCall(op, headerSize, alignment, address, ret) ==
    /\ last.op = "construct"
    /\ last' = Call(op, headerSize, alignment, address, ret)
    /\ UNCHANGED <<kind, ptr, debug, start, size, used_memory, num_allocations,
                   current_pos, prev_position, free_blocks, free_list,
                   objectSize, objectAlignment, mem, proxy, live, status>>

MathNext ==
    \/ \E address \in MathAddresses, alignment \in PowersOfTwo :
          MathCall("alignForward", 0, alignment, address,
                   alignForward(address, alignment))
    \/ \E address \in MathAddresses, alignment \in PowersOfTwo :
          MathCall("alignForwardAdjustment", 0, alignment, address,
                   alignForwardAdjustment(address, alignment))
    \/ \E address \in MathAddresses, alignment \in PowersOfTwo :
       \E headerSize \in HeaderSizes :
          MathCall("alignForwardAdjustmentWithHeader", headerSize, alignment,
                   address,
                   alignForwardAdjustmentWithHeader(address, alignment, headerSize))
MathSpec == MathInit /\ [][MathNext]_vars

-----------------------------------------------------------------------------
(* Properties *)

\* the free list in list order, and the sizes of its blocks
FreeBlocks == FreeListFrom(mem, free_blocks)
FreeSizes == [i \in 1 .. Len(FreeBlocks) |-> mem[FreeBlocks[i]].size]
\* a request of sz bytes aligned to alignment fits in the free block b
Fits(b, sz, alignment) ==
    mem[b].size >= sz + alignForwardAdjustmentWithHeader(
                            b, alignment, FreeListHeaderSize(Self))
\* first byte of the block the last FreeList allocate carved its result from
CarvedFrom == last.ret - mem[last.ret - FreeListHeaderSize(Self)].adjustment

\* C1: in every reachable state of every allocator, the ProxyAllocators
\* included, 0 <= usedBytes() <= capacity()
C1_UsedWithinCapacity ==
    status = "ok" =>
        /\ 0 <= used_memory /\ used_memory <= size
        /\ \A i \in 1 .. NumProxies :
              0 <= proxy[i].used_memory /\ proxy[i].used_memory <= proxy[i].size

C3_FullCoalescing ==
    (kind = "FreeList" /\ status = "ok" /\ live = {}) =>
        /\ free_blocks = start
        /\ mem = Store(NoMem, start, [size |-> size, next |-> nullptr])
        /\ used_memory = 0
        /\ num_allocations = 0
C3_Witness ==
    /\ kind = "FreeList" /\ status = "ok" /\ live = {}
    /\ last.op = "deallocate"

\* C4: a Stack deallocate of the most recent live allocation does not assert,
\* and once the allocations are all released in that order the allocator uses
\* no bytes, counts no allocation and its top is the region's start
C4_ReverseOrderRestores ==
    [][(kind = "Stack" /\ status = "ok" /\ last'.op = "deallocate"
            /\ last'.p = MostRecent)
          => /\ status' = "ok"
             /\ live' = {} => /\ used_memory' = 0
                              /\ num_allocations' = 0
                              /\ current_pos' = start]_vars
C4_Witness ==
    /\ kind = "Stack" /\ status = "ok" /\ live = {}
    /\ last.op = "deallocate" /\ last.p > start

\* C5: a _DEBUG Stack deallocate of a live allocation that is not the most
\* recent one fails the ASSERT
C5_OutOfOrderAsserts ==
    [][(kind = "Stack" /\ debug /\ status = "ok" /\ last'.op = "deallocate"
            /\ last'.p \in LiveAddresses /\ last'.p # MostRecent)
          => status' = "assert"]_vars
C5_Witness ==
    /\ kind = "Stack" /\ debug /\ status = "assert"
    /\ last.op = "deallocate"
    /\ last.p \in LiveAddresses /\ last.p # MostRecent

\* C6: a FreeList allocate carves its result from the first block of the free
\* list that the request fits in; the blocks before it in the list are at
\* lower addresses and too small
C6_FirstFit ==
    [][(kind = "FreeList" /\ status = "ok" /\ last'.op = "allocate"
            /\ last'.ret # nullptr)
          => \E i \in 1 .. Len(FreeBlocks) :
                /\ FreeBlocks[i] = CarvedFrom'
                /\ Fits(FreeBlocks[i], last'.size, last'.alignment)
                /\ \A j \in 1 .. i - 1 :
                      /\ ~Fits(FreeBlocks[j], last'.size, last'.alignment)
                      /\ FreeBlocks[j] < FreeBlocks[i]]_vars
C6_Witness ==
    /\ kind = "FreeList" /\ status = "ok"
    /\ last.op = "allocate" /\ last.ret # nullptr
    /\ free_blocks # nullptr /\ free_blocks < CarvedFrom

\* C7 as claimed: with free blocks of 64, 16 and 128 bytes in address order, a
\* request that fits the 16-byte block is carved from the 16-byte block
C7_Picks16ByteBlock ==
    [][(kind = "FreeList" /\ status = "ok" /\ last'.op = "allocate"
            /\ FreeSizes = <<64, 16, 128>>
            /\ Fits(FreeBlocks[2], last'.size, last'.alignment))
          => CarvedFrom' = FreeBlocks[2]]_vars
\* C7 as amended: such a request is carved from the first of the three blocks
\* it fits in, which is the 64-byte block whenever it fits that one too
C7_PicksFirstFittingBlock ==
    [][(kind = "FreeList" /\ status = "ok" /\ last'.op = "allocate"
            /\ FreeSizes = <<64, 16, 128>>
            /\ Fits(FreeBlocks[2], last'.size, last'.alignment))
          => /\ last'.ret # nullptr
             /\ CarvedFrom' = IF Fits(FreeBlocks[1], last'.size, last'.alignment)
                              THEN FreeBlocks[1] ELSE FreeBlocks[2]
             /\ Fits(FreeBlocks[1], last'.size, last'.alignment)]_vars
C7_Witness ==
    /\ kind = "FreeList" /\ status = "ok"
    /\ last = Call("allocate", 8, 4, nullptr, start + 8)
    /\ FreeSizes = <<48, 16, 128>>
    /\ FreeBlocks[1] = start + 16

\* C8: a FreeList allocate never asserts for a nonzero size, and returns
\* nullptr exactly when the request fits in no block of the free list
C8_FailsIffNothingFits ==
    [][(kind = "FreeList" /\ status = "ok" /\ last'.op = "allocate")
          => /\ status' = "ok"
             /\ last'.ret = nullptr <=>
                   \A i \in 1 .. Len(FreeBlocks) :
                      ~Fits(FreeBlocks[i], last'.size, last'.alignment)]_vars
C8_Witness ==
    /\ kind = "FreeList" /\ status = "ok"
    /\ last.op = "allocate" /\ last.ret = nullptr
    /\ Len(FreeBlocks) >= 2

\* C9: a Linear allocator uses the sum, over the allocations made since it was
\* constructed or cleared, of size + alignForwardAdjustment(cursor before the
\* call, alignment), and counts those allocations
LinearCost(l) == l.size + alignForwardAdjustment(l.lo, l.alignment)
RECURSIVE LinearCostOf(_)
LinearCostOf(S) ==
    IF S = {} THEN 0
    ELSE LET l == CHOOSE x \in S : TRUE IN LinearCost(l) + LinearCostOf(S \ {l})
C9_LinearUsesTheSum ==
    (kind = "Linear" /\ status = "ok") =>
        /\ used_memory = LinearCostOf(live)
        /\ num_allocations = Cardinality(live)
        /\ \A l \in live : l.p = l.lo + alignForwardAdjustment(l.lo, l.alignment)
C9_Witness ==
    /\ kind = "Linear" /\ status = "ok" /\ last.op = "allocate"
    /\ Cardinality(live) >= 3
    /\ \E l \in live : alignForwardAdjustment(l.lo, l.alignment) > 0

\* C10: clear() zeroes a Linear allocator's used bytes and count and puts the
\* cursor at the region's start, and the allocate after it returns what the
\* same allocate returns from a newly constructed allocator
C10_ClearRestarts ==
    [][/\ (kind = "Linear" /\ last'.op = "clear")
            => /\ used_memory' = 0
               /\ num_allocations' = 0
               /\ current_pos' = start
       /\ (kind = "Linear" /\ last.op = "clear" /\ last'.op = "allocate")
            => last'.ret = LinearAllocate(LinearAllocator(ptr, debug, size, start),
                                          last'.size, last'.alignment).ret]_vars
C10_Witness ==
    /\ kind = "Linear" /\ status = "ok"
    /\ last.op = "allocate" /\ last.ret # nullptr
    /\ Cardinality(live) = 1
    /\ current_pos = last.ret + last.size
    /\ last.ret = start + alignForwardAdjustment(start, last.alignment)
    /\ start % last.alignment # 0

\* the slots floor((C - alignForwardAdjustment(regionStart, A)) / S) of a pool
PoolSlots ==
    IF alignForwardAdjustment(start, objectAlignment) > size THEN 0
    ELSE (size - alignForwardAdjustment(start, objectAlignment)) \div objectSize

\* C11: a PoolAllocator has exactly floor((C - adjustment) / S) slots: an
\* allocate succeeds while fewer than that many are taken and returns
\* nullptr once that many are taken
C11_ExactlyTheSlots ==
    [][(kind = "Pool" /\ last'.op = "allocate" /\ status' = "ok")
          => (last'.ret # nullptr <=> Cardinality(live) < PoolSlots)]_vars

\* the pool's free list in list order, and the slots the constructor made
PoolFree == FreeListFrom(mem, free_list)
PoolSlotAddresses ==
    {start + alignForwardAdjustment(start, objectAlignment) + i * objectSize :
        i \in 0 .. PoolSlots - 1}

\* C12: once every allocation of a pool is deallocated, in whatever order and
\* also after all its slots were taken, the free list has as many entries as
\* the pool has slots, they are exactly the slots' addresses, and the pool
\* uses no bytes and counts no allocation
C12_AllReleasedRestores ==
    (kind = "Pool" /\ status = "ok" /\ live = {}) =>
        /\ Len(PoolFree) = PoolSlots
        /\ {PoolFree[i] : i \in 1 .. Len(PoolFree)} = PoolSlotAddresses
        /\ used_memory = 0
        /\ num_allocations = 0
\* every slot was taken (the list's last entry was freed into an empty list)
\* and all are free again, in another order than the constructor's
C12_Witness ==
    /\ kind = "Pool" /\ status = "ok" /\ live = {}
    /\ last.op = "deallocate"
    /\ PoolSlots >= 3
    /\ PoolFree[Len(PoolFree)] # start + alignForwardAdjustment(start, objectAlignment)
                                   + (PoolSlots - 1) * objectSize
    /\ PoolFree[1] # start + alignForwardAdjustment(start, objectAlignment)

\* C13: a call made through a ProxyAllocator returns what the same call made
\* on the allocator it refers to returns from the same state (nullptr
\* included), fails an ASSERT when that call does, and leaves that allocator
\* in the same state
C13_ProxyIsTransparent ==
    [][/\ last'.op = "allocate" =>
             LET r == Allocate(Self, last'.size, last'.alignment)
             IN  /\ Self' = r.self
                 /\ last'.ret = r.ret
                 /\ (status' = "assert") = r.assert
       /\ last'.op = "deallocate" =>
             LET r == Deallocate(Self, last'.p)
             IN  /\ Self' = r.self
                 /\ (status' = "assert") = r.assert]_vars
\* both proxies have served calls, an allocation is live and the last
\* allocate, through a proxy, returned nullptr
C13_Witness ==
    /\ status = "ok"
    /\ \A i \in 1 .. NumProxies : proxy[i].num_allocations > 0
    /\ live # {}
    /\ last.op = "allocate" /\ last.ret = nullptr

\* the bytes the proxies 1 .. n count as used, together
RECURSIVE ProxyUsedUpTo(_)
ProxyUsedUpTo(n) ==
    IF n = 0 THEN 0 ELSE proxy[n].used_memory + ProxyUsedUpTo(n - 1)

\* C14: a call through a ProxyAllocator changes that proxy's used bytes by
\* what the call changes the used bytes of the allocator it refers to, and
\* no other proxy's; and while every call goes through the proxies, their
\* used bytes add up to the allocator's
C14_ProxiesAddUp ==
    /\ [](status = "ok" => ProxyUsedUpTo(NumProxies) = used_memory)
    /\ [][(last'.op \in {"allocate", "deallocate"} /\ status' = "ok") =>
             \E i \in 1 .. NumProxies :
                /\ \A j \in 1 .. NumProxies : j # i => proxy'[j] = proxy[j]
                /\ proxy'[i].used_memory - proxy[i].used_memory
                      = used_memory' - used_memory]_vars
\* both proxies hold allocations of an allocator that puts a header in front
\* of each, so that the bytes used are more than the bytes asked for
C14_Witness ==
    /\ status = "ok" /\ kind \in {"Stack", "FreeList"}
    /\ \A i \in 1 .. NumProxies :
          /\ \E l \in live : l.owner = i
          /\ proxy[i].used_memory > 0
    /\ last.op = "deallocate"

\* C15: an allocate through a ProxyAllocator that returns nullptr leaves the
\* proxy's used bytes and allocation count as they were, so that the count is
\* the number of live allocations made through the proxy
C15_FailureLeavesProxyUnchanged ==
    /\ [][(last'.op = "allocate" /\ status' = "ok" /\ last'.ret = nullptr)
             => proxy' = proxy]_vars
    /\ [](status = "ok" =>
             \A i \in 1 .. NumProxies :
                proxy[i].num_allocations = Cardinality({l \in live : l.owner = i}))

\* the allocator, or the proxy i, has released everything allocated from it
NothingLive == live = {}
NothingLiveOf(i) == {l \in live : l.owner = i} = {}

\* destroying the allocator fails the ASSERT iff it uses bytes or counts
\* allocations, and does not fail it once its allocations are all released
DestroyAssertsIffInUse ==
    [][DestroyCall =>
          /\ (status' = "assert") = (used_memory # 0 \/ num_allocations # 0)
          /\ NothingLive => status' = "ok"]_vars

\* C16: destroying an allocator, a ProxyAllocator included, fails the ASSERT
\* iff it uses bytes or counts allocations at that time, and does not fail
\* it once everything allocated from it is released
C16_DestroyAssertsIffInUse ==
    /\ DestroyAssertsIffInUse
    /\ [][\A i \in 1 .. NumProxies : ProxyDestroyCall(i) =>
             /\ (status' = "assert")
                    = (proxy[i].used_memory # 0 \/ proxy[i].num_allocations # 0)
             /\ NothingLiveOf(i) => status' = "ok"]_vars

\* C17: an address other than nullptr that allocate of a Linear, Stack or
\* FreeList allocator returns is a multiple of the alignment asked for
C17_ReturnsAligned ==
    (/\ kind \in {"Linear", "Stack", "FreeList"}
     /\ last.op = "allocate" /\ status = "ok" /\ last.ret # nullptr)
        => last.ret % last.alignment = 0
\* an allocation behind another one, in a region whose start is not a
\* multiple of the alignment asked for
C17_Witness ==
    /\ kind \in {"Linear", "Stack", "FreeList"}
    /\ last.op = "allocate" /\ status = "ok" /\ last.ret # nullptr
    /\ start % last.alignment # 0
    /\ Cardinality(live) >= 2
    /\ \E l \in live : l.p = last.ret /\ l.lo % last.alignment # 0

\* C18: alignForward(address, alignment) is the smallest multiple of the
\* alignment that is not below the address, for addresses of any magnitude
C18_AlignForwardIsNextMultiple ==
    last.op = "alignForward" =>
        /\ last.ret >= last.p
        /\ last.ret % last.alignment = 0
        /\ last.ret - last.p < last.alignment

\* what C18 says, for the addresses a u8 mask keeps whole
AlignForwardBelowMask ==
    (last.op = "alignForward" /\ last.p + last.alignment <= U8Mod) =>
        /\ last.ret >= last.p
        /\ last.ret % last.alignment = 0
        /\ last.ret - last.p < last.alignment

\* C19: alignForwardAdjustment(address, alignment) is the d with
\* 0 <= d < alignment for which address + d is a multiple of the alignment;
\* it is 0, not the alignment, for an aligned address
C19_AdjustmentIsDistance ==
    last.op = "alignForwardAdjustment" =>
        /\ 0 <= last.ret /\ last.ret < last.alignment
        /\ (last.p + last.ret) % last.alignment = 0
        /\ last.p % last.alignment = 0 => last.ret = 0
\* an aligned address beyond the u8 range
C19_Witness ==
    /\ last.op = "alignForwardAdjustment"
    /\ last.p > U8Mod /\ last.alignment >= 4
    /\ last.p % last.alignment = 0

\* C20: alignForwardAdjustmentWithHeader(address, alignment, headerSize) is
\* the smallest d >= headerSize for which address + d is a multiple of the
\* alignment, and it is the plain adjustment when that is >= headerSize
C20_AdjustmentCoversHeader ==
    last.op = "alignForwardAdjustmentWithHeader" =>
        /\ last.ret >= last.size
        /\ (last.p + last.ret) % last.alignment = 0
        /\ last.ret - last.alignment < last.size
        /\ alignForwardAdjustment(last.p, last.alignment) >= last.size
              => last.ret = alignForwardAdjustment(last.p, last.alignment)
\* the plain adjustment is too small for the header, and what is missing is
\* not a multiple of the alignment
C20_Witness ==
    /\ last.op = "alignForwardAdjustmentWithHeader"
    /\ last.size = 16 /\ last.alignment = 4 /\ last.p > U8Mod
    /\ alignForwardAdjustment(last.p, last.alignment) > 0
    /\ last.ret = 19

\* C21: deallocate of an address the allocator never returned fails an
\* ASSERT and changes nothing of the allocator
C21_StrayDeallocateAsserts ==
    [][(last'.op = "deallocate" /\ last'.p \in Strays(Self))
          => (status' = "assert" /\ Self' = Self)]_vars

\* C22: allocate with an alignment that is no power of two fails an ASSERT
C22_BadAlignmentAsserts ==
    [][(last'.op = "allocate" /\ last'.alignment \in BadAlignments)
          => status' = "assert"]_vars

\* C24: deallocate of a LinearAllocator fails its ASSERT for every address
\* and leaves the used bytes, the count and the cursor alone; only clear()
\* makes a LinearAllocator's used bytes or its count less
C24_LinearNeverDeallocates ==
    /\ [][(kind = "Linear" /\ last'.op = "deallocate") =>
             /\ status' = "assert"
             /\ used_memory' = used_memory
             /\ num_allocations' = num_allocations
             /\ current_pos' = current_pos]_vars
    /\ [][(kind = "Linear" /\ (used_memory' < used_memory
                               \/ num_allocations' < num_allocations))
             => last'.op = "clear"]_vars
\* a deallocate of a live address of a LinearAllocator that holds two
C24_Witness ==
    /\ kind = "Linear" /\ last.op = "deallocate" /\ status = "assert"
    /\ last.p \in LiveAddresses
    /\ num_allocations = 2 /\ used_memory > 0

\* the live allocations of a Stack in the order they were made (its
\* addresses grow), and what allocate returns for these requests, with the
\* allocator they leave, from the allocator self on
RECURSIVE LiveInOrder(_)
LiveInOrder(S) ==
    IF S = {} THEN <<>>
    ELSE LET l == CHOOSE x \in S : \A y \in S : x.p <= y.p
         IN  <<l>> \o LiveInOrder(S \ {l})
RECURSIVE StackReplay(_, _)
StackReplay(self, calls) ==
    IF calls = <<>> THEN [self |-> self, rets |-> <<>>]
    ELSE LET r == StackAllocate(self, Head(calls).size, Head(calls).alignment)
             rest == StackReplay(r.self, Tail(calls))
         IN  [self |-> rest.self, rets |-> <<r.ret>> \o rest.rets]

\* C23: the _DEBUG build of StackAllocator and the release build, over the
\* same region and given the same calls in LIFO order, return the same
\* addresses and have the same used bytes and count
C23_BuildsAgree ==
    (kind = "Stack" /\ debug /\ status = "ok") =>
        LET calls == LiveInOrder(live)
            release == StackReplay(StackAllocator(ptr, FALSE, size, start), calls)
        IN  /\ release.rets = [n \in 1 .. Len(calls) |-> calls[n].p]
            /\ release.self.used_memory = used_memory
            /\ release.self.num_allocations = num_allocations

\* C25: the constructor of a PoolAllocator whose region has room for no slot
\* behind the adjustment fails an ASSERT, and stores no free-list link
\* outside the region
C25_NoSlotsIsFatal ==
    (kind = "Pool" /\ last.op = "construct" /\ PoolSlots = 0) =>
        /\ status = "assert"
        /\ \A a \in DOMAIN mem : start <= a /\ a + ptr <= start + size

\* C26: allocateArray stores the length in the sizeof(size_t) bytes in front
\* of the array it returns, inside the block allocate returned; deallocateArray
\* of that array reads that length and hands deallocate the address that
\* allocate returned
C26_ArrayRoundTrip ==
    [][/\ (last'.op = "allocateArray" /\ status' = "ok") =>
             \E l \in live' \ live :
                /\ l.array = last'.ret /\ l.length = last'.size
                /\ mem'[l.array - ptr].length = l.length
                /\ l.p <= l.array - ptr
                /\ l.array <= l.p + l.size
       /\ last'.op = "deallocateArray" =>
             \E l \in live :
                /\ l.array = last'.p
                /\ last'.size = l.length
                /\ last'.ret = l.p]_vars
\* an array of elements larger than a size_t, given back while another one
\* of smaller elements is live
C26_Witness ==
    /\ last.op = "deallocateArray" /\ status = "ok"
    /\ last.size >= 2 /\ last.ret # last.p - ptr
    /\ live # {}

\* C27: the free list of a FreeListAllocator ascends strictly by address, its
\* blocks lie inside the region, and a block ends strictly before the next one
\* starts (so blocks neither overlap nor touch); after deallocate(p) the freed
\* block [lo, lo + header.size) lies in one free block, and no free block ends
\* where that one starts or starts where it ends
FreeListWellFormed ==
    /\ \A i \in 1 .. Len(FreeBlocks) :
          /\ start <= FreeBlocks[i]
          /\ FreeBlocks[i] + FreeSizes[i] <= start + size
    /\ \A i \in 1 .. Len(FreeBlocks) - 1 :
          FreeBlocks[i] + FreeSizes[i] < FreeBlocks[i + 1]
FreedIsCovered ==
    (last'.op = "deallocate" /\ status' = "ok") =>
        \E l \in live \ live' :
           \E i \in 1 .. Len(FreeBlocks') :
              /\ FreeBlocks'[i] <= l.lo
              /\ l.lo + mem[l.p - FreeListHeaderSize(Self)].size
                    <= FreeBlocks'[i] + FreeSizes'[i]
              /\ \A j \in 1 .. Len(FreeBlocks') :
                    /\ FreeBlocks'[j] + FreeSizes'[j] # FreeBlocks'[i]
                    /\ FreeBlocks'[j] # FreeBlocks'[i] + FreeSizes'[i]
C27_FreeListSortedAndCoalesced ==
    [](kind = "FreeList" => FreeListWellFormed)
        /\ [][kind = "FreeList" => FreedIsCovered]_vars
\* a block given back in front of a live one: the list has two blocks, the
\* freed one and the rest of the region behind the live allocation
C27_Witness ==
    /\ kind = "FreeList" /\ last.op = "deallocate" /\ status = "ok"
    /\ Len(FreeBlocks) >= 2 /\ live # {}

\* C28: in a FreeListAllocator the used bytes and the sizes of the free
\* blocks add up to the capacity, and the used bytes are the sum of the
\* header.size fields of the live allocations
RECURSIVE SumOf(_)
SumOf(q) == IF q = <<>> THEN 0 ELSE Head(q) + SumOf(Tail(q))
RECURSIVE HeaderSizesOf(_)
HeaderSizesOf(S) ==
    IF S = {} THEN 0
    ELSE LET l == CHOOSE x \in S : TRUE
         IN  mem[l.p - FreeListHeaderSize(Self)].size + HeaderSizesOf(S \ {l})
C28_FreeListAccounting ==
    kind = "FreeList" =>
        /\ used_memory + SumOf(FreeSizes) = size
        /\ used_memory = HeaderSizesOf(live)
\* two live allocations, one of which absorbed its block's leftover, and a
\* free block left in front of them
C28_Witness ==
    /\ kind = "FreeList" /\ status = "ok"
    /\ Cardinality(live) = 2 /\ Len(FreeBlocks) = 1
    /\ FreeBlocks[1] = start
    /\ FreeBlocks[1] + FreeSizes[1] + used_memory = start + size
    /\ \E l \in live :
          mem[l.p - FreeListHeaderSize(Self)].size
              > l.size + mem[l.p - FreeListHeaderSize(Self)].adjustment

\* C29: for Linear, Stack and FreeList allocators the bytes of the live
\* allocations, from the start of the block each was carved from (padding and
\* header included) to the end of its payload, lie inside the region and are
\* pairwise disjoint; for FreeList they are also disjoint from the free blocks
LiveRangesApart ==
    /\ \A l \in live :
          /\ start <= l.lo /\ l.lo <= l.p
          /\ l.p + l.size <= start + size
    /\ \A l1, l2 \in live :
          l1 # l2 => (l1.p + l1.size <= l2.lo \/ l2.p + l2.size <= l1.lo)
LiveApartFromFree ==
    \A l \in live : \A i \in 1 .. Len(FreeBlocks) :
        \/ l.p + l.size <= FreeBlocks[i]
        \/ FreeBlocks[i] + FreeSizes[i] <= l.lo
C29_LiveRangesDisjoint ==
    /\ kind \in {"Linear", "Stack", "FreeList"} => LiveRangesApart
    /\ kind = "FreeList" => LiveApartFromFree
\* a region holding as many live allocations as a caller keeps, one of them
\* placed after alignment padding
C29_Witness ==
    /\ kind \in {"Linear", "Stack", "FreeList"} /\ status = "ok"
    /\ Cardinality(live) = MaxLive
    /\ \E l \in live : l.lo < l.p - (IF kind = "Linear" THEN 0 ELSE 2 * ptr)

\* C30: a FreeListAllocator allocate that picks the free block b of size n for
\* a request needing size + adjustment bytes takes the whole block off the list
\* (header.size = n) exactly when n - (size + adjustment) is at most
\* sizeof(AllocationHeader); otherwise header.size = size + adjustment and the
\* block is replaced, at its place in the list and with the same successor, by
\* the block [b + size + adjustment, b + n); used grows by header.size
RemoveAt(q, i) == SubSeq(q, 1, i - 1) \o SubSeq(q, i + 1, Len(q))
FreeListPicked ==
    /\ kind = "FreeList"
    /\ last'.op = "allocate" /\ last'.ret # nullptr /\ status' = "ok"
FreeListAbsorbsOrSplits ==
    LET header == mem'[last'.ret - FreeListHeaderSize(Self)]
        need == last'.size + header.adjustment
    IN  \E i \in 1 .. Len(FreeBlocks) :
           /\ FreeBlocks[i] = CarvedFrom'
           /\ IF FreeSizes[i] - need <= FreeListHeaderSize(Self)
              THEN /\ header.size = FreeSizes[i]
                   /\ FreeBlocks' = RemoveAt(FreeBlocks, i)
                   /\ FreeSizes' = RemoveAt(FreeSizes, i)
              ELSE /\ header.size = need
                   /\ FreeBlocks' = [FreeBlocks EXCEPT ![i] = CarvedFrom' + need]
                   /\ FreeSizes' = [FreeSizes EXCEPT ![i] = @ - need]
           /\ used_memory' = used_memory + header.size
C30_AbsorbOrSplit == [][FreeListPicked => FreeListAbsorbsOrSplits]_vars
\* an allocate that absorbed a leftover of exactly sizeof(AllocationHeader)
\* bytes, from a block that was not the last of the list
C30_Witness ==
    /\ kind = "FreeList" /\ last.op = "allocate" /\ last.ret # nullptr
    /\ status = "ok"
    /\ LET header == mem[last.ret - FreeListHeaderSize(Self)]
       IN  header.size = last.size + header.adjustment + FreeListHeaderSize(Self)
    /\ \E i \in 1 .. Len(FreeBlocks) : FreeBlocks[i] > last.ret

\* C31: in every reachable state of a FreeListAllocator, an allocate that
\* succeeds followed at once by deallocate of the address it returned leaves
\* the same free blocks (starts and sizes, in list order), the same used bytes
\* and the same number of allocations as before the two calls
FreeListRoundTrip(sz, alignment) ==
    FreeListDeallocate(FreeListAllocate(Self, sz, alignment).self,
                       FreeListAllocate(Self, sz, alignment).ret).self
FreeListSucceeds(sz, alignment) ==
    /\ ~FreeListAllocate(Self, sz, alignment).assert
    /\ FreeListAllocate(Self, sz, alignment).ret # nullptr
FreeSizesOf(self) ==
    [i \in 1 .. Len(FreeListFrom(self.mem, self.free_blocks)) |->
        self.mem[FreeListFrom(self.mem, self.free_blocks)[i]].size]
C31_AllocateDeallocateRestores ==
    (kind = "FreeList" /\ status = "ok") =>
        \A rq \in Sizes \X Alignments :
            FreeListSucceeds(rq[1], rq[2]) =>
                /\ FreeListFrom(FreeListRoundTrip(rq[1], rq[2]).mem,
                                FreeListRoundTrip(rq[1], rq[2]).free_blocks)
                      = FreeBlocks
                /\ FreeSizesOf(FreeListRoundTrip(rq[1], rq[2])) = FreeSizes
                /\ FreeListRoundTrip(rq[1], rq[2]).used_memory = used_memory
                /\ FreeListRoundTrip(rq[1], rq[2]).num_allocations = num_allocations
\* a state left by a deallocate, with live allocations between two free
\* blocks, where a request is served from the second block and splits it
C31_Witness ==
    /\ kind = "FreeList" /\ status = "ok" /\ last.op = "deallocate"
    /\ Len(FreeBlocks) = 2 /\ live # {}
    /\ \E rq \in Sizes \X Alignments :
          /\ FreeListSucceeds(rq[1], rq[2])
          /\ FreeListAllocate(Self, rq[1], rq[2]).ret > FreeBlocks[2]
          /\ Len(FreeListFrom(FreeListAllocate(Self, rq[1], rq[2]).self.mem,
                              FreeListAllocate(Self, rq[1], rq[2]).self.free_blocks)) = 2

\* C32: in a _DEBUG StackAllocator whose allocations are given back last
\* first, _prev_position is the address of the most recent live allocation
\* (nullptr when none is live), and deallocate of that address puts the top,
\* the used bytes, the count and _prev_position back to what they were just
\* before the allocate that returned it: the top recorded then (lo), the bytes
\* below that top, and the count and most recent address of the allocations
\* that were live then, which are the ones still live
StackTracksMostRecent ==
    /\ prev_position = MostRecent
    /\ used_memory = current_pos - start
    /\ num_allocations = Cardinality(live)
StackDeallocateRestores ==
    (last'.op = "deallocate" /\ status' = "ok") =>
        \E l \in live \ live' :
           /\ l.p = last'.p /\ l.p = prev_position
           /\ current_pos' = l.lo
           /\ used_memory' = l.lo - start
           /\ num_allocations' = Cardinality(live')
           /\ prev_position' = MostRecent'
C32_StackLastAllocation ==
    []((kind = "Stack" /\ debug) => StackTracksMostRecent)
        /\ [][(kind = "Stack" /\ debug) => StackDeallocateRestores]_vars
\* the most recent of three allocations was given back: the one before it is
\* the last allocation again
C32_Witness ==
    /\ kind = "Stack" /\ debug /\ status = "ok"
    /\ last.op = "deallocate"
    /\ Cardinality(live) = 2 /\ prev_position = MostRecent
    /\ current_pos > prev_position

\* C33: in a _DEBUG StackAllocator a deallocate(p) that is not stopped by the
\* assertion has a live allocation and p is the most recent one; a deallocate
\* made while nothing is live fails the assertion and leaves the used bytes
\* and the count as they were
C33_EmptyStackDeallocateAsserts ==
    [][(kind = "Stack" /\ debug /\ last'.op = "deallocate") =>
          /\ status' # "assert" => (live # {} /\ last'.p = MostRecent)
          /\ live = {} =>
                /\ status' = "assert"
                /\ used_memory' = used_memory
                /\ num_allocations' = num_allocations]_vars

\* C34: for Linear, Stack, FreeList and Pool allocators the count of
\* allocations is the number of addresses that allocate returned and that were
\* not given back since (for Linear: returned since the last clear()), and
\* when the count is 0 no byte is in use
C34_CountIsLiveAddresses ==
    /\ num_allocations = Cardinality(LiveAddresses)
    /\ Cardinality(LiveAddresses) = Cardinality(live)
    /\ num_allocations = 0 => used_memory = 0
\* an allocator that is empty again: its last allocation was given back, or
\* it was cleared
C34_Witness ==
    /\ status = "ok" /\ last.op \in {"deallocate", "clear"}
    /\ live = {} /\ num_allocations = 0 /\ used_memory = 0

\* C35: with sizes taken from the whole machine word, a Linear or Stack
\* allocate returns an address only when used + adjustment + size, added
\* without wrapping, is at most the capacity, and a FreeList allocate carves a
\* block only when size + adjustment, added without wrapping, is at most the
\* size of that block
C35_NoWrappedSuccess ==
    [][(last'.op = "allocate" /\ last'.ret # nullptr /\ status' # "assert") =>
          IF kind = "FreeList"
          THEN \E i \in 1 .. Len(FreeBlocks) :
                  /\ FreeBlocks[i] = CarvedFrom'
                  /\ last'.size + (last'.ret - FreeBlocks[i]) <= FreeSizes[i]
          ELSE used_memory + (last'.ret - current_pos) + last'.size <= size]_vars

\* C36: every address a PoolAllocator returns is a multiple of its
\* objectAlignment, and the objectSize bytes from it on lie in the region
C36_PoolSlotsAligned ==
    [][(kind = "Pool" /\ last'.op = "allocate" /\ status' = "ok"
           /\ last'.ret # nullptr) =>
          /\ last'.ret % objectAlignment = 0
          /\ start <= last'.ret
          /\ last'.ret + objectSize <= start + size]_vars

\* C37: in a PoolAllocator whose caller deallocates live addresses only, the
\* slots on the free list and the live slots are disjoint and together are
\* the slots the constructor made; the free list holds no slot twice (it does
\* not run into itself), its length is the number of slots less the number of
\* allocations, and allocate never returns an address that is live
PoolFreeSet == {PoolFree[i] : i \in 1 .. Len(PoolFree)}
PoolPartition ==
    /\ PoolFreeSet \cap LiveAddresses = {}
    /\ PoolFreeSet \cup LiveAddresses = PoolSlotAddresses
    /\ Cardinality(PoolFreeSet) = Len(PoolFree)
    /\ Len(PoolFree) = PoolSlots - num_allocations
PoolReturnsFreeSlot ==
    (last'.op = "allocate" /\ last'.ret # nullptr) => last'.ret \notin LiveAddresses
C37_PoolPartition ==
    []((kind = "Pool" /\ status = "ok") => PoolPartition)
        /\ [][kind = "Pool" => PoolReturnsFreeSlot]_vars
\* a pool of three slots or more with a live slot between free ones, after
\* slots were given back in another order than they were taken
C37_Witness ==
    /\ kind = "Pool" /\ status = "ok" /\ last.op = "allocate"
    /\ last.ret # nullptr
    /\ PoolSlots >= 3 /\ Len(PoolFree) >= 2
    /\ \E i \in 1 .. Len(PoolFree) - 1 : PoolFree[i] > PoolFree[i + 1]

\* C38: a PoolAllocator's allocate returns the head of the free list (nullptr
\* when the list is empty), deallocate(p) makes p the head in front of the
\* former list, and the allocate that directly follows deallocate(p) returns p
C38_PoolReusesLastFreed ==
    [][(kind = "Pool" /\ status' = "ok") =>
          /\ last'.op = "allocate" =>
                /\ last'.ret = free_list
                /\ last.op = "deallocate" => last'.ret = last.p
          /\ last'.op = "deallocate" =>
                /\ free_list' = last'.p
                /\ PoolFree' = <<last'.p>> \o PoolFree]_vars
\* an allocate returned a slot below a live one: the slot was given back
\* before and is handed out again
C38_Witness ==
    /\ kind = "Pool" /\ status = "ok"
    /\ last.op = "allocate" /\ last.ret # nullptr
    /\ \E l \in live : l.p > last.ret
    /\ free_list # nullptr

\* C39: when the allocator's allocate returns nullptr, allocateArray returns
\* nullptr to its caller and stores nothing (an allocateArray that neither
\* asserts nor adds a live array is one whose allocate returned nullptr)
C39_ArrayFailureIsReported ==
    [][(last'.op = "allocateArray" /\ status' # "assert" /\ live' = live) =>
          /\ last'.ret = nullptr
          /\ mem' = mem
          /\ status' = "ok"]_vars

\* C40: the cursor of a LinearAllocator, and of a StackAllocator whose
\* allocations are given back last first, is start + used bytes; and the
\* header of every live StackAllocator allocation lies between the cursor the
\* allocate found and the address it returned, behind every earlier payload
CursorIsStartPlusUsed == current_pos = start + used_memory
StackHeadersInGap ==
    \A l \in live :
        /\ l.lo <= l.p - StackHeaderSize(Self)
        /\ (l.p - StackHeaderSize(Self)) \in DOMAIN mem
        /\ \A e \in live : e.p < l.p => e.p + e.size <= l.p - StackHeaderSize(Self)
C40_CursorAndHeaders ==
    /\ kind \in {"Linear", "Stack"} => CursorIsStartPlusUsed
    /\ kind = "Stack" => StackHeadersInGap
\* a StackAllocator with as many live allocations as its caller keeps, the
\* last of them placed after more padding than its header needs
C40_Witness ==
    /\ kind = "Stack" /\ status = "ok"
    /\ Cardinality(live) = MaxLive
    /\ \E l \in live : l.p = MostRecent /\ l.lo < l.p - StackHeaderSize(Self)
    /\ used_memory > 0

=============================================================================
